---- MODULE Spec2Model ----
(***************************************************************************)
(* Model of services/diagnostic/service.go: the diagnostics factory        *)
(* (service.New*Handler), the per-subsystem handlers, their typed event    *)
(* methods, the context-binding methods (WithContext and its named         *)
(* variants) and the variadic Error dispatch.                              *)
(*                                                                         *)
(* A zap logger is represented by the ordered sequence of fields bound to  *)
(* it; a record written by the logger is its level, its message and the    *)
(* bound fields followed by the fields of the call.                        *)
(***************************************************************************)
EXTENDS Naturals, Sequences, FiniteSets, TLC

VARIABLES
    logger,     \* service.logger: the fields bound to the root logger
    handlers,   \* the handler objects constructed so far: [type, l]
    records,    \* the records written to the backend by the last call
    call,       \* the last call: [op, h (receiver), args, ret (handler returned)]
    origin,     \* per handler, the call that constructed it: [op, h (receiver), args]
                \* (in SpecConc also `during`: the receivers of the calls then running)
    pc,         \* per caller: position inside a running WithContext call
    frame       \* per caller: the locals of its running WithContext call

vars == <<logger, handlers, records, call, origin, pc, frame>>

(***************************************************************************)
(* Bounds of the model and the input sets.                                 *)
(***************************************************************************)
MaxHandlers == 2        \* handlers constructed in Spec
MaxChain == 3           \* handlers constructed in SpecCtx
MaxScopes == 3          \* handlers constructed in SpecKap
MaxHTTPD == 1           \* handlers constructed in SpecHTTP
MaxShared == 3          \* handlers constructed in SpecConc
MaxErrHandlers == 1     \* handlers constructed in SpecErr
MaxCtx == 3             \* longest variadic context list passed to Error
MaxZero == 2            \* request attributes given their zero value in one call

Callers == {1, 2}

Str == {"", "t1"}
Tasks == {"t1", "t2"}
Nodes == {"n7", ""}
TaskMasters == {"main"}
Parents == {"n1"}
Children == {"n7"}
AlertLevels == {"OK", "CRITICAL"}
Entities == {"task", "template"}
Ints == {"0", "3"}
Errs == {"EOF"}
Msgs == {"write failed"}
Levels == {"info", "debug"}
Bools == {"true", "false"}
Rows == {"nil", "cpu"}

\* keyvalue.T
KV(k, v) == [Key |-> k, Value |-> v]
KVs == {KV("task", "t1"), KV("attempt", "3")}

RECURSIVE SeqsUpTo(_, _)
SeqsUpTo(S, n) ==
    IF n = 0 THEN {<<>>}
    ELSE LET shorter == SeqsUpTo(S, n - 1)
         IN  shorter \cup {Append(s, x) : s \in {t \in shorter : Len(t) = n - 1}, x \in S}

\* the context lists given to the variadic Error: every list of up to MaxCtx pairs
ErrCtxs == SeqsUpTo(KVs, MaxCtx)
\* a few of them: none, two pairs of one key, three pairs
ErrCtxsFew == {<<>>, <<KV("task", "t1"), KV("task", "t1")>>,
               <<KV("attempt", "3"), KV("task", "t1"), KV("attempt", "3")>>}
\* the arguments of an access-log call: per position, a set value or the zero value;
\* up to MaxZero attributes, or all of them, are zero
HTTPSet == <<"localhost", "admin", "10:00", "GET", "/ping", "HTTP/1.1", "200", "http://ref", "curl", "req-1", "5ms">>
HTTPZero == <<"", "", "00:00", "", "", "", "0", "", "", "", "0s">>
HTTPArgsAll == {[i \in 1..11 |-> IF i \in z THEN HTTPZero[i] ELSE HTTPSet[i]] : z \in {y \in SUBSET (1..11) : Cardinality(y) <= MaxZero \/ y = 1..11}}
\* the same with every attribute set, or the referer alone empty
HTTPArgsFew == {[i \in 1..11 |-> IF i \in z THEN HTTPZero[i] ELSE HTTPSet[i]] : z \in {{}, {8}}}
\* the context lists given to WithContext / WithHandlerContext
WithCtxs == {<<>>, <<KV("task", "t1")>>, <<KV("attempt", "3"), KV("task", "t1")>>}

(***************************************************************************)
(* zap fields and the logger (the logging backend).                        *)
(***************************************************************************)
Field(key, type, val) == [Key |-> key, Type |-> type, Val |-> val]
ZapString(key, val) == Field(key, "String", val)
ZapInt(key, val) == Field(key, "Int", val)
ZapInt64(key, val) == Field(key, "Int64", val)
ZapBool(key, val) == Field(key, "Bool", val)
ZapTime(key, val) == Field(key, "Time", val)
ZapDuration(key, val) == Field(key, "Duration", val)
ZapStringer(key, val) == Field(key, "Stringer", val)
ZapError(err) == Field("error", "Error", err)

\* fmt.Sprintf("%v", rows) of a *models.Row
SprintfV(rows) == IF rows = "nil" THEN "<nil>" ELSE "&{" \o rows \o "}"

\* zap.NewExample(): a logger with no bound field
NewExample == <<>>
\* (*zap.Logger).With: a new logger, the receiver's fields followed by `fields`
With(l, fields) == l \o fields
\* (*zap.Logger).Debug / Info / Warn / Error: one record
Entry(level, l, msg, fields) == [Level |-> level, Message |-> msg, Fields |-> l \o fields]
LogDebug(l, msg, fields) == Entry("debug", l, msg, fields)
LogInfo(l, msg, fields) == Entry("info", l, msg, fields)
LogWarn(l, msg, fields) == Entry("warn", l, msg, fields)
LogError(l, msg, fields) == Entry("error", l, msg, fields)

(***************************************************************************)
(* Shapes of the steps.                                                    *)
(***************************************************************************)
IsA(h, type) == h \in DOMAIN handlers /\ handlers[h].type = type

\* an event method: writes `recs`, constructs nothing
Emit(op, h, args, recs) ==
    /\ records' = recs
    /\ call' = [op |-> op, h |-> h, args |-> args, ret |-> 0]
    /\ UNCHANGED <<logger, handlers, origin, pc, frame>>

\* a method returning &type{l: l}: constructs a handler, writes nothing
Construct(op, h, args, type, l) ==
    /\ handlers' = Append(handlers, [type |-> type, l |-> l])
    /\ records' = <<>>
    /\ call' = [op |-> op, h |-> h, args |-> args, ret |-> Len(handlers) + 1]
    /\ origin' = Append(origin, [op |-> op, h |-> h, args |-> args])
    /\ UNCHANGED <<logger, pc, frame>>

\* fields := []zapcore.Field{}; for _, kv := range ctx { fields = append(fields, zap.String(kv.Key, kv.Value)) }
RECURSIVE CtxFields(_)
CtxFields(ctx) ==
    IF ctx = <<>> THEN <<>>
    ELSE <<ZapString(Head(ctx).Key, Head(ctx).Value)>> \o CtxFields(Tail(ctx))

\* the locals of a caller that is not inside WithContext
NoFrame == [h |-> 0, ctx |-> <<>>, fields |-> <<>>]

(***************************************************************************)
(* The factory: NewService and the accessors.                              *)
(***************************************************************************)
Init ==
    /\ logger = NewExample
    /\ handlers = <<>>
    /\ records = <<>>
    /\ call = [op |-> "NewService", h |-> 0, args |-> <<>>, ret |-> 0]
    /\ origin = <<>>
    /\ pc = [c \in Callers |-> "idle"]
    /\ frame = [c \in Callers |-> NoFrame]

NewVictorOpsHandler ==
    Construct("NewVictorOpsHandler", 0, <<>>, "VictorOpsHandler",
              With(logger, <<ZapString("service", "victorops")>>))

NewSlackHandler ==
    Construct("NewSlackHandler", 0, <<>>, "SlackHandler",
              With(logger, <<ZapString("service", "slack")>>))

NewTaskStoreHandler ==
    Construct("NewTaskStoreHandler", 0, <<>>, "TaskStoreHandler",
              With(logger, <<ZapString("service", "task_store")>>))

NewReportingHandler ==
    Construct("NewReportingHandler", 0, <<>>, "ReportingHandler",
              With(logger, <<ZapString("service", "reporting")>>))

NewStorageHandler ==
    Construct("NewStorageHandler", 0, <<>>, "StorageHandler",
              With(logger, <<ZapString("service", "storage")>>))

NewHTTPDHandler ==
    Construct("NewHTTPDHandler", 0, <<>>, "HTTPDHandler",
              With(logger, <<ZapString("service", "http")>>))

NewAlertaHandler ==
    Construct("NewAlertaHandler", 0, <<>>, "AlertaHandler",
              With(logger, <<ZapString("service", "alerta")>>))

NewKapacitorHandler ==
    Construct("NewKapacitorHandler", 0, <<>>, "KapacitorHandler",
              With(logger, <<ZapString("service", "kapacitor")>>))

\* Faulty variant (C5 rules it out): the service name of another accessor.
NewAlertHandlerAsAlerta ==
    Construct("NewAlertHandler", 0, <<>>, "AlertServiceHandler",
              With(logger, <<ZapString("service", "alerta")>>))

\* The accessor builds &AlertHandler{...}; the handler of services/alert that
\* the file declares is AlertServiceHandler.
NewAlertHandler ==
    Construct("NewAlertHandler", 0, <<>>, "AlertServiceHandler",
              With(logger, <<ZapString("service", "alert")>>))

NewHipChatHandler ==
    Construct("NewHipChatHandler", 0, <<>>, "HipChatHandler",
              With(logger, <<ZapString("service", "hipchat")>>))

NewUDFServiceHandler ==
    Construct("NewUDFServiceHandler", 0, <<>>, "UDFServiceHandler",
              With(logger, <<ZapString("service", "udf")>>))

(***************************************************************************)
(* The variadic Error(msg, err, ctx...) of AlertServiceHandler,            *)
(* KapacitorHandler and TaskStoreHandler: three special cases and the      *)
(* general path, each as the source writes it.                             *)
(***************************************************************************)
\* fields := make([]zapcore.Field, len(ctx)+1); fields[0] = zap.Error(err);
\* for i := 1; i < len(fields); i++ { fields[i] = zap.String(ctx[i-1].Key, ctx[i-1].Value) }
\* Faulty variant (C2 rules it out): the loop stops one pair early, the last field stays
\* the zero Field.
ErrorFieldsGeneralShort(err, ctx) ==
    [i \in 1..(Len(ctx) + 1) |->
        IF i = 1 THEN ZapError(err)
        ELSE IF i < Len(ctx) + 1 THEN ZapString(ctx[i - 1].Key, ctx[i - 1].Value)
        ELSE Field("", "Unknown", "")]

ErrorFieldsGeneral(err, ctx) ==
    [i \in 1..(Len(ctx) + 1) |->
        IF i = 1 THEN ZapError(err) ELSE ZapString(ctx[i - 1].Key, ctx[i - 1].Value)]

AlertServiceErrorRecords(l, msg, err, ctx) ==
    IF Len(ctx) = 0 THEN <<LogError(l, msg, <<ZapError(err)>>)>>
    ELSE IF Len(ctx) = 1 THEN
        <<LogError(l, msg, <<ZapError(err), ZapString(ctx[1].Key, ctx[1].Value)>>)>>
    ELSE IF Len(ctx) = 2 THEN
        <<LogError(l, msg, <<ZapError(err), ZapString(ctx[1].Key, ctx[1].Value),
                             ZapString(ctx[2].Key, ctx[2].Value)>>)>>
    ELSE <<LogError(l, msg, ErrorFieldsGeneral(err, ctx))>>

KapacitorErrorRecords(l, msg, err, ctx) ==
    IF Len(ctx) = 0 THEN <<LogError(l, msg, <<ZapError(err)>>)>>
    ELSE IF Len(ctx) = 1 THEN
        <<LogError(l, msg, <<ZapError(err), ZapString(ctx[1].Key, ctx[1].Value)>>)>>
    ELSE IF Len(ctx) = 2 THEN
        <<LogError(l, msg, <<ZapError(err), ZapString(ctx[1].Key, ctx[1].Value),
                             ZapString(ctx[2].Key, ctx[2].Value)>>)>>
    ELSE <<LogError(l, msg, ErrorFieldsGeneral(err, ctx))>>

TaskStoreErrorRecords(l, msg, err, ctx) ==
    IF Len(ctx) = 0 THEN <<LogError(l, msg, <<ZapError(err)>>)>>
    ELSE IF Len(ctx) = 1 THEN
        <<LogError(l, msg, <<ZapError(err), ZapString(ctx[1].Key, ctx[1].Value)>>)>>
    ELSE IF Len(ctx) = 2 THEN
        <<LogError(l, msg, <<ZapError(err), ZapString(ctx[1].Key, ctx[1].Value),
                             ZapString(ctx[2].Key, ctx[2].Value)>>)>>
    ELSE <<LogError(l, msg, ErrorFieldsGeneral(err, ctx))>>

(***************************************************************************)
(* AlertServiceHandler                                                     *)
(***************************************************************************)
AlertServiceWithHandlerContext(h, ctx) ==
    /\ IsA(h, "AlertServiceHandler")
    /\ Construct("AlertServiceHandler.WithHandlerContext", h, <<ctx>>,
                 "AlertServiceHandler", With(handlers[h].l, CtxFields(ctx)))

AlertServiceMigratingHandlerSpecs(h) ==
    /\ IsA(h, "AlertServiceHandler")
    /\ Emit("AlertServiceHandler.MigratingHandlerSpecs", h, <<>>,
            <<LogDebug(handlers[h].l, "migrating old v1.2 handler specs", <<>>)>>)

AlertServiceMigratingOldHandlerSpec(h, spec) ==
    /\ IsA(h, "AlertServiceHandler")
    /\ Emit("AlertServiceHandler.MigratingOldHandlerSpec", h, <<spec>>,
            <<LogDebug(handlers[h].l, "migrating old handler spec",
                       <<ZapString("handler", spec)>>)>>)

AlertServiceFoundHandlerRows(h, length) ==
    /\ IsA(h, "AlertServiceHandler")
    /\ Emit("AlertServiceHandler.FoundHandlerRows", h, <<length>>,
            <<LogDebug(handlers[h].l, "found handler rows",
                       <<ZapInt("handler_row_count", length)>>)>>)

AlertServiceCreatingNewHandlers(h, length) ==
    /\ IsA(h, "AlertServiceHandler")
    /\ Emit("AlertServiceHandler.CreatingNewHandlers", h, <<length>>,
            <<LogDebug(handlers[h].l, "creating new handlers in place of old handlers",
                       <<ZapInt("handler_row_count", length)>>)>>)

AlertServiceFoundNewHandler(h, key) ==
    /\ IsA(h, "AlertServiceHandler")
    /\ Emit("AlertServiceHandler.FoundNewHandler", h, <<key>>,
            <<LogDebug(handlers[h].l, "found new handler skipping",
                       <<ZapString("handler", key)>>)>>)

AlertServiceError(h, msg, err, ctx) ==
    /\ IsA(h, "AlertServiceHandler")
    /\ Emit("AlertServiceHandler.Error", h, <<msg, err, ctx>>,
            AlertServiceErrorRecords(handlers[h].l, msg, err, ctx))

(***************************************************************************)
(* KapacitorHandler                                                        *)
(***************************************************************************)
KapacitorWithTaskContext(h, task) ==
    /\ IsA(h, "KapacitorHandler")
    /\ Construct("KapacitorHandler.WithTaskContext", h, <<task>>, "KapacitorHandler",
                 With(handlers[h].l, <<ZapString("task", task)>>))

KapacitorWithTaskMasterContext(h, tm) ==
    /\ IsA(h, "KapacitorHandler")
    /\ Construct("KapacitorHandler.WithTaskMasterContext", h, <<tm>>, "KapacitorHandler",
                 With(handlers[h].l, <<ZapString("task_master", tm)>>))

\* Faulty variant (C8 rules it out): the node is bound under the key of the task.
KapacitorWithNodeContextTaskKey(h, node) ==
    /\ IsA(h, "KapacitorHandler")
    /\ Construct("KapacitorHandler.WithNodeContext", h, <<node>>, "KapacitorHandler",
                 With(handlers[h].l, <<ZapString("task", node)>>))

KapacitorWithNodeContext(h, node) ==
    /\ IsA(h, "KapacitorHandler")
    /\ Construct("KapacitorHandler.WithNodeContext", h, <<node>>, "KapacitorHandler",
                 With(handlers[h].l, <<ZapString("node", node)>>))

KapacitorWithEdgeContext(h, task, parent, child) ==
    /\ IsA(h, "KapacitorHandler")
    /\ Construct("KapacitorHandler.WithEdgeContext", h, <<task, parent, child>>,
                 "KapacitorHandler",
                 With(handlers[h].l, <<ZapString("task", task), ZapString("parent", parent),
                                       ZapString("child", child)>>))

KapacitorTaskMasterOpened(h) ==
    /\ IsA(h, "KapacitorHandler")
    /\ Emit("KapacitorHandler.TaskMasterOpened", h, <<>>,
            <<LogInfo(handlers[h].l, "opened task master", <<>>)>>)

KapacitorTaskMasterClosed(h) ==
    /\ IsA(h, "KapacitorHandler")
    /\ Emit("KapacitorHandler.TaskMasterClosed", h, <<>>,
            <<LogInfo(handlers[h].l, "closed task master", <<>>)>>)

KapacitorStartingTask(h, task) ==
    /\ IsA(h, "KapacitorHandler")
    /\ Emit("KapacitorHandler.StartingTask", h, <<task>>,
            <<LogDebug(handlers[h].l, "starting task", <<ZapString("task", task)>>)>>)

\* Faulty variant (C10 rules it out): a task already bound is overwritten, not repeated.
KapacitorStartedTaskOverwriting(h, task) ==
    /\ IsA(h, "KapacitorHandler")
    /\ Emit("KapacitorHandler.StartedTask", h, <<task>>,
            <<LogInfo(SelectSeq(handlers[h].l, LAMBDA f : f.Key # "task"), "started task",
                      <<ZapString("task", task)>>)>>)

KapacitorStartedTask(h, task) ==
    /\ IsA(h, "KapacitorHandler")
    /\ Emit("KapacitorHandler.StartedTask", h, <<task>>,
            <<LogInfo(handlers[h].l, "started task", <<ZapString("task", task)>>)>>)

KapacitorStoppedTask(h, task) ==
    /\ IsA(h, "KapacitorHandler")
    /\ Emit("KapacitorHandler.StoppedTask", h, <<task>>,
            <<LogInfo(handlers[h].l, "stopped task", <<ZapString("task", task)>>)>>)

\* Faulty variant (C9 rules it out): the error is left out of the record.
KapacitorStoppedTaskWithoutError(h, task, err) ==
    /\ IsA(h, "KapacitorHandler")
    /\ Emit("KapacitorHandler.StoppedTaskWithError", h, <<task, err>>,
            <<LogError(handlers[h].l, "failed to stop task with out error",
                       <<ZapString("task", task)>>)>>)

KapacitorStoppedTaskWithError(h, task, err) ==
    /\ IsA(h, "KapacitorHandler")
    /\ Emit("KapacitorHandler.StoppedTaskWithError", h, <<task, err>>,
            <<LogError(handlers[h].l, "failed to stop task with out error",
                       <<ZapString("task", task), ZapError(err)>>)>>)

KapacitorTaskMasterDot(h, d) ==
    /\ IsA(h, "KapacitorHandler")
    /\ Emit("KapacitorHandler.TaskMasterDot", h, <<d>>,
            <<LogDebug(handlers[h].l, "listing dot", <<ZapString("dot", d)>>)>>)

KapacitorClosingEdge(h, collected, emitted) ==
    /\ IsA(h, "KapacitorHandler")
    /\ Emit("KapacitorHandler.ClosingEdge", h, <<collected, emitted>>,
            <<LogDebug(handlers[h].l, "closing edge",
                       <<ZapInt64("collected", collected), ZapInt64("emitted", emitted)>>)>>)

KapacitorError(h, msg, err, ctx) ==
    /\ IsA(h, "KapacitorHandler")
    /\ Emit("KapacitorHandler.Error", h, <<msg, err, ctx>>,
            KapacitorErrorRecords(handlers[h].l, msg, err, ctx))

KapacitorAlertTriggered(h, level, id, message, rows) ==
    /\ IsA(h, "KapacitorHandler")
    /\ Emit("KapacitorHandler.AlertTriggered", h, <<level, id, message, rows>>,
            <<LogDebug(handlers[h].l, "alert triggered",
                       <<ZapStringer("level", level), ZapString("id", id),
                         ZapString("event_message", message),
                         ZapString("data", SprintfV(rows))>>)>>)

KapacitorSettingReplicas(h, new, old, id) ==
    /\ IsA(h, "KapacitorHandler")
    /\ Emit("KapacitorHandler.SettingReplicas", h, <<new, old, id>>,
            <<LogDebug(handlers[h].l, "setting replicas",
                       <<ZapInt("new", new), ZapInt("old", old), ZapString("id", id)>>)>>)

KapacitorStartingBatchQuery(h, q) ==
    /\ IsA(h, "KapacitorHandler")
    /\ Emit("KapacitorHandler.StartingBatchQuery", h, <<q>>,
            <<LogDebug(handlers[h].l, "starting next batch query",
                       <<ZapString("query", q)>>)>>)

KapacitorCannotPerformDerivative(h, reason) ==
    /\ IsA(h, "KapacitorHandler")
    /\ Emit("KapacitorHandler.CannotPerformDerivative", h, <<reason>>,
            <<LogError(handlers[h].l, "cannot perform derivative",
                       <<ZapString("reason", reason)>>)>>)

KapacitorMissingTagForFlattenOp(h, tag) ==
    /\ IsA(h, "KapacitorHandler")
    /\ Emit("KapacitorHandler.MissingTagForFlattenOp", h, <<tag>>,
            <<LogError(handlers[h].l, "point missing tag for flatten operation",
                       <<ZapString("tag", tag)>>)>>)

KapacitorIndexOutOfRangeForRow(h, idx) ==
    /\ IsA(h, "KapacitorHandler")
    /\ Emit("KapacitorHandler.IndexOutOfRangeForRow", h, <<idx>>,
            <<LogError(handlers[h].l, "index out of range for row update",
                       <<ZapInt("index", idx)>>)>>)

KapacitorLoopbackWriteFailed(h) ==
    /\ IsA(h, "KapacitorHandler")
    /\ Emit("KapacitorHandler.LoopbackWriteFailed", h, <<>>,
            <<LogError(handlers[h].l, "failed to write point over loopback", <<>>)>>)

\* switch level { case "info": h.l.Info(...); default: }; h.l.Info(...)
KapacitorLogDataRecords(l, level, prefix, data) ==
    (IF level = "info"
     THEN <<LogInfo(l, "listing data", <<ZapString("prefix", prefix), ZapString("data", data)>>)>>
     ELSE <<>>)
    \o <<LogInfo(l, "listing data", <<ZapString("prefix", prefix), ZapString("data", data)>>)>>

KapacitorLogData(h, level, prefix, data) ==
    /\ IsA(h, "KapacitorHandler")
    /\ Emit("KapacitorHandler.LogData", h, <<level, prefix, data>>,
            KapacitorLogDataRecords(handlers[h].l, level, prefix, data))

KapacitorUDFLog(h, s) ==
    /\ IsA(h, "KapacitorHandler")
    /\ Emit("KapacitorHandler.UDFLog", h, <<s>>,
            <<LogInfo(handlers[h].l, "UDF log", <<ZapString("text", s)>>)>>)

(***************************************************************************)
(* AlertaHandler, HipChatHandler                                           *)
(***************************************************************************)
\* Faulty variant (C1 rules it out): the pairs are bound on the receiver as well.
AlertaWithContextInPlace(h, ctx) ==
    /\ IsA(h, "AlertaHandler")
    /\ handlers' = Append([handlers EXCEPT ![h].l = With(@, CtxFields(ctx))],
                          [type |-> "AlertaHandler",
                           l |-> With(handlers[h].l, CtxFields(ctx))])
    /\ records' = <<>>
    /\ call' = [op |-> "AlertaHandler.WithContext", h |-> h, args |-> <<ctx>>,
                ret |-> Len(handlers) + 1]
    /\ origin' = Append(origin, [op |-> "AlertaHandler.WithContext", h |-> h,
                                 args |-> <<ctx>>])
    /\ UNCHANGED <<logger, pc, frame>>

AlertaWithContext(h, ctx) ==
    /\ IsA(h, "AlertaHandler")
    /\ Construct("AlertaHandler.WithContext", h, <<ctx>>, "AlertaHandler",
                 With(handlers[h].l, CtxFields(ctx)))

AlertaTemplateError(h, err, kv) ==
    /\ IsA(h, "AlertaHandler")
    /\ Emit("AlertaHandler.TemplateError", h, <<err, kv>>,
            <<LogError(handlers[h].l, "failed to evaluate Alerta template",
                       <<ZapError(err), ZapString(kv.Key, kv.Value)>>)>>)

AlertaError(h, msg, err) ==
    /\ IsA(h, "AlertaHandler")
    /\ Emit("AlertaHandler.Error", h, <<msg, err>>,
            <<LogError(handlers[h].l, msg, <<ZapError(err)>>)>>)

HipChatWithContext(h, ctx) ==
    /\ IsA(h, "HipChatHandler")
    /\ Construct("HipChatHandler.WithContext", h, <<ctx>>, "HipChatHandler",
                 With(handlers[h].l, CtxFields(ctx)))

HipChatError(h, msg, err) ==
    /\ IsA(h, "HipChatHandler")
    /\ Emit("HipChatHandler.Error", h, <<msg, err>>,
            <<LogError(handlers[h].l, msg, <<ZapError(err)>>)>>)

(***************************************************************************)
(* HTTPDHandler                                                            *)
(***************************************************************************)
\* returns nil: no record
HTTPDNewHTTPServerErrorLogger(h) ==
    /\ IsA(h, "HTTPDHandler")
    /\ Emit("HTTPDHandler.NewHTTPServerErrorLogger", h, <<>>, <<>>)

HTTPDStartingService(h) ==
    /\ IsA(h, "HTTPDHandler")
    /\ Emit("HTTPDHandler.StartingService", h, <<>>,
            <<LogInfo(handlers[h].l, "starting HTTP service", <<>>)>>)

HTTPDStoppedService(h) ==
    /\ IsA(h, "HTTPDHandler")
    /\ Emit("HTTPDHandler.StoppedService", h, <<>>,
            <<LogInfo(handlers[h].l, "closed HTTP service", <<>>)>>)

HTTPDShutdownTimeout(h) ==
    /\ IsA(h, "HTTPDHandler")
    /\ Emit("HTTPDHandler.ShutdownTimeout", h, <<>>,
            <<LogError(handlers[h].l,
                       "shutdown timedout, forcefully closing all remaining connections",
                       <<>>)>>)

HTTPDAuthenticationEnabled(h, enabled) ==
    /\ IsA(h, "HTTPDHandler")
    /\ Emit("HTTPDHandler.AuthenticationEnabled", h, <<enabled>>,
            <<LogInfo(handlers[h].l, "authentication", <<ZapBool("enabled", enabled)>>)>>)

HTTPDListeningOn(h, addr, proto) ==
    /\ IsA(h, "HTTPDHandler")
    /\ Emit("HTTPDHandler.ListeningOn", h, <<addr, proto>>,
            <<LogInfo(handlers[h].l, "listening on",
                      <<ZapString("addr", addr), ZapString("protocol", proto)>>)>>)

HTTPDWriteBodyReceived(h, body) ==
    /\ IsA(h, "HTTPDHandler")
    /\ Emit("HTTPDHandler.WriteBodyReceived", h, <<body>>,
            <<LogDebug(handlers[h].l, "write body received by handler: %s",
                       <<ZapString("body", body)>>)>>)

\* Faulty variant (C7 rules it out): an empty referer is left out of the record.
HTTPDHTTPOmitEmpty(h, host, username, start, method, uri, proto, status, referer, userAgent, reqID, duration) ==
    /\ IsA(h, "HTTPDHandler")
    /\ Emit("HTTPDHandler.HTTP", h,
            <<host, username, start, method, uri, proto, status, referer, userAgent,
              reqID, duration>>,
            <<LogInfo(handlers[h].l, "???",
                      <<ZapString("host", host),
                        ZapString("username", username),
                        ZapTime("start", start),
                        ZapString("method", method),
                        ZapString("uri", uri),
                        ZapString("protocol", proto),
                        ZapInt("status", status)>>
                      \o (IF referer = "" THEN <<>> ELSE <<ZapString("referer", referer)>>)
                      \o <<ZapString("user-agent", userAgent),
                           ZapString("request-id", reqID),
                           ZapDuration("duration", duration)>>)>>)

HTTPDHTTP(h, host, username, start, method, uri, proto, status, referer, userAgent, reqID, duration) ==
    /\ IsA(h, "HTTPDHandler")
    /\ Emit("HTTPDHandler.HTTP", h,
            <<host, username, start, method, uri, proto, status, referer, userAgent,
              reqID, duration>>,
            <<LogInfo(handlers[h].l, "???",
                      <<ZapString("host", host),
                        ZapString("username", username),
                        ZapTime("start", start),
                        ZapString("method", method),
                        ZapString("uri", uri),
                        ZapString("protocol", proto),
                        ZapInt("status", status),
                        ZapString("referer", referer),
                        ZapString("user-agent", userAgent),
                        ZapString("request-id", reqID),
                        ZapDuration("duration", duration)>>)>>)

HTTPDRecoveryError(h, msg, err, host, username, start, method, uri, proto, status, referer, userAgent, reqID, duration) ==
    /\ IsA(h, "HTTPDHandler")
    /\ Emit("HTTPDHandler.RecoveryError", h,
            <<msg, err, host, username, start, method, uri, proto, status, referer,
              userAgent, reqID, duration>>,
            <<LogError(handlers[h].l, msg,
                       <<ZapString("err", err),
                         ZapString("host", host),
                         ZapString("username", username),
                         ZapTime("start", start),
                         ZapString("method", method),
                         ZapString("uri", uri),
                         ZapString("protocol", proto),
                         ZapInt("status", status),
                         ZapString("referer", referer),
                         ZapString("user-agent", userAgent),
                         ZapString("request-id", reqID),
                         ZapDuration("duration", duration)>>)>>)

HTTPDError(h, msg, err) ==
    /\ IsA(h, "HTTPDHandler")
    /\ Emit("HTTPDHandler.Error", h, <<msg, err>>,
            <<LogError(handlers[h].l, msg, <<ZapError(err)>>)>>)

(***************************************************************************)
(* ReportingHandler, SlackHandler, StorageHandler                          *)
(***************************************************************************)
ReportingError(h, msg, err) ==
    /\ IsA(h, "ReportingHandler")
    /\ Emit("ReportingHandler.Error", h, <<msg, err>>,
            <<LogError(handlers[h].l, msg, <<ZapError(err)>>)>>)

SlackInsecureSkipVerify(h) ==
    /\ IsA(h, "SlackHandler")
    /\ Emit("SlackHandler.InsecureSkipVerify", h, <<>>,
            <<LogWarn(handlers[h].l, "service is configured to skip ssl verification",
                      <<>>)>>)

SlackError(h, msg, err) ==
    /\ IsA(h, "SlackHandler")
    /\ Emit("SlackHandler.Error", h, <<msg, err>>,
            <<LogError(handlers[h].l, msg, <<ZapError(err)>>)>>)

SlackWithContext(h, ctx) ==
    /\ IsA(h, "SlackHandler")
    /\ Construct("SlackHandler.WithContext", h, <<ctx>>, "SlackHandler",
                 With(handlers[h].l, CtxFields(ctx)))

StorageError(h, msg, err) ==
    /\ IsA(h, "StorageHandler")
    /\ Emit("StorageHandler.Error", h, <<msg, err>>,
            <<LogError(handlers[h].l, msg, <<ZapError(err)>>)>>)

(***************************************************************************)
(* TaskStoreHandler                                                        *)
(***************************************************************************)
TaskStoreStartingTask(h, taskID) ==
    /\ IsA(h, "TaskStoreHandler")
    /\ Emit("TaskStoreHandler.StartingTask", h, <<taskID>>,
            <<LogDebug(handlers[h].l, "starting enabled task on startup",
                       <<ZapString("task", taskID)>>)>>)

TaskStoreStartedTask(h, taskID) ==
    /\ IsA(h, "TaskStoreHandler")
    /\ Emit("TaskStoreHandler.StartedTask", h, <<taskID>>,
            <<LogDebug(handlers[h].l, "started task during startup",
                       <<ZapString("task", taskID)>>)>>)

TaskStoreFinishedTask(h, taskID) ==
    /\ IsA(h, "TaskStoreHandler")
    /\ Emit("TaskStoreHandler.FinishedTask", h, <<taskID>>,
            <<LogDebug(handlers[h].l, "task finished", <<ZapString("task", taskID)>>)>>)

TaskStoreDebug(h, msg) ==
    /\ IsA(h, "TaskStoreHandler")
    /\ Emit("TaskStoreHandler.Debug", h, <<msg>>, <<LogDebug(handlers[h].l, msg, <<>>)>>)

TaskStoreError(h, msg, err, ctx) ==
    /\ IsA(h, "TaskStoreHandler")
    /\ Emit("TaskStoreHandler.Error", h, <<msg, err, ctx>>,
            TaskStoreErrorRecords(handlers[h].l, msg, err, ctx))

TaskStoreAlreadyMigrated(h, entity, id) ==
    /\ IsA(h, "TaskStoreHandler")
    /\ Emit("TaskStoreHandler.AlreadyMigrated", h, <<entity, id>>,
            <<LogDebug(handlers[h].l, "entity has already been migrated skipping",
                       <<ZapString(entity, id)>>)>>)

\* Faulty variant (C6 rules it out): the entity kind and the identifier as two fields.
TaskStoreMigratedTwoFields(h, entity, id) ==
    /\ IsA(h, "TaskStoreHandler")
    /\ Emit("TaskStoreHandler.Migrated", h, <<entity, id>>,
            <<LogDebug(handlers[h].l, "entity was migrated to new storage service",
                       <<ZapString("entity", entity), ZapString("id", id)>>)>>)

TaskStoreMigrated(h, entity, id) ==
    /\ IsA(h, "TaskStoreHandler")
    /\ Emit("TaskStoreHandler.Migrated", h, <<entity, id>>,
            <<LogDebug(handlers[h].l, "entity was migrated to new storage service",
                       <<ZapString(entity, id)>>)>>)

(***************************************************************************)
(* VictorOpsHandler, UDFServiceHandler                                     *)
(***************************************************************************)
VictorOpsError(h, msg, err) ==
    /\ IsA(h, "VictorOpsHandler")
    /\ Emit("VictorOpsHandler.Error", h, <<msg, err>>,
            <<LogError(handlers[h].l, msg, <<ZapError(err)>>)>>)

VictorOpsWithContext(h, ctx) ==
    /\ IsA(h, "VictorOpsHandler")
    /\ Construct("VictorOpsHandler.WithContext", h, <<ctx>>, "VictorOpsHandler",
                 With(handlers[h].l, CtxFields(ctx)))

UDFServiceLoadedUDFInfo(h, udf) ==
    /\ IsA(h, "UDFServiceHandler")
    /\ Emit("UDFServiceHandler.LoadedUDFInfo", h, <<udf>>,
            <<LogDebug(handlers[h].l, "loaded UDF info", <<ZapString("udf", udf)>>)>>)

(***************************************************************************)
(* SlackHandler.WithContext and VictorOpsHandler.WithContext statement by  *)
(* statement, for callers that run it concurrently on shared handlers.     *)
(* The locals (ctx, fields) are the caller's own; the receiver's logger is *)
(* read when With is called.                                               *)
(***************************************************************************)
\* entry: fields := []zapcore.Field{}
WithContextEnter(c, h, ctx) ==
    /\ pc[c] = "idle"
    /\ h \in DOMAIN handlers
    /\ handlers[h].type \in {"SlackHandler", "VictorOpsHandler"}
    /\ pc' = [pc EXCEPT ![c] = "range"]
    /\ frame' = [frame EXCEPT ![c] = [h |-> h, ctx |-> ctx, fields |-> <<>>]]
    /\ UNCHANGED <<logger, handlers, records, call, origin>>

\* one iteration: fields = append(fields, zap.String(kv.Key, kv.Value))
WithContextRange(c) ==
    /\ pc[c] = "range"
    /\ Len(frame[c].fields) < Len(frame[c].ctx)
    /\ LET kv == frame[c].ctx[Len(frame[c].fields) + 1]
       IN  frame' = [frame EXCEPT ![c].fields = Append(@, ZapString(kv.Key, kv.Value))]
    /\ UNCHANGED <<logger, handlers, records, call, origin, pc>>

\* Faulty variant (C4 rules it out): With binds the fields on the receiver's logger,
\* which the new handler shares.
WithContextReturnShared(c) ==
    /\ pc[c] = "range"
    /\ Len(frame[c].fields) = Len(frame[c].ctx)
    /\ handlers' = Append([handlers EXCEPT ![frame[c].h].l = With(@, frame[c].fields)],
                          [type |-> handlers[frame[c].h].type,
                           l |-> With(handlers[frame[c].h].l, frame[c].fields)])
    /\ records' = <<>>
    /\ call' = [op |-> handlers[frame[c].h].type \o ".WithContext", h |-> frame[c].h,
                args |-> <<frame[c].ctx>>, ret |-> Len(handlers) + 1]
    /\ origin' = Append(origin, [op |-> handlers[frame[c].h].type \o ".WithContext",
                                 h |-> frame[c].h, args |-> <<frame[c].ctx>>,
                                 during |-> {}])
    /\ pc' = [pc EXCEPT ![c] = "idle"]
    /\ frame' = [frame EXCEPT ![c] = NoFrame]
    /\ UNCHANGED logger

\* return &SlackHandler{l: h.l.With(fields...)} (VictorOpsHandler alike)
WithContextReturn(c) ==
    /\ pc[c] = "range"
    /\ Len(frame[c].fields) = Len(frame[c].ctx)
    /\ handlers' = Append(handlers, [type |-> handlers[frame[c].h].type,
                                     l |-> With(handlers[frame[c].h].l, frame[c].fields)])
    /\ records' = <<>>
    /\ call' = [op |-> handlers[frame[c].h].type \o ".WithContext", h |-> frame[c].h,
                args |-> <<frame[c].ctx>>, ret |-> Len(handlers) + 1]
    /\ origin' = Append(origin, [op |-> handlers[frame[c].h].type \o ".WithContext",
                                 h |-> frame[c].h, args |-> <<frame[c].ctx>>,
                                 during |-> {frame[d].h : d \in {e \in Callers : pc[e] # "idle"} \ {c}}])
    /\ pc' = [pc EXCEPT ![c] = "idle"]
    /\ frame' = [frame EXCEPT ![c] = NoFrame]
    /\ UNCHANGED logger

(***************************************************************************)
(* Specifications.                                                         *)
(***************************************************************************)
Factory ==
    \/ NewVictorOpsHandler
    \/ NewSlackHandler
    \/ NewTaskStoreHandler
    \/ NewReportingHandler
    \/ NewStorageHandler
    \/ NewHTTPDHandler
    \/ NewAlertaHandler
    \/ NewKapacitorHandler
    \/ NewAlertHandler
    \/ NewHipChatHandler
    \/ NewUDFServiceHandler

WithContextStep(h) ==
    \/ \E ctx \in WithCtxs : AlertServiceWithHandlerContext(h, ctx)
    \/ \E ctx \in WithCtxs : AlertaWithContext(h, ctx)
    \/ \E ctx \in WithCtxs : HipChatWithContext(h, ctx)
    \/ \E ctx \in WithCtxs : SlackWithContext(h, ctx)
    \/ \E ctx \in WithCtxs : VictorOpsWithContext(h, ctx)

KapacitorScopeStep(h) ==
    \/ \E task \in Tasks : KapacitorWithTaskContext(h, task)
    \/ \E tm \in TaskMasters : KapacitorWithTaskMasterContext(h, tm)
    \/ \E node \in Nodes : KapacitorWithNodeContext(h, node)
    \/ \E task \in Tasks, parent \in Parents, child \in Children :
           KapacitorWithEdgeContext(h, task, parent, child)

AlertServiceEvent(h, Ctxs) ==
    \/ AlertServiceMigratingHandlerSpecs(h)
    \/ \E spec \in Str : AlertServiceMigratingOldHandlerSpec(h, spec)
    \/ \E length \in Ints : AlertServiceFoundHandlerRows(h, length)
    \/ \E length \in Ints : AlertServiceCreatingNewHandlers(h, length)
    \/ \E key \in Str : AlertServiceFoundNewHandler(h, key)
    \/ \E msg \in Msgs, err \in Errs, ctx \in Ctxs : AlertServiceError(h, msg, err, ctx)

KapacitorTaskEvent(h) ==
    \/ KapacitorTaskMasterOpened(h)
    \/ KapacitorTaskMasterClosed(h)
    \/ \E task \in Tasks : KapacitorStartingTask(h, task)
    \/ \E task \in Tasks : KapacitorStartedTask(h, task)
    \/ \E task \in Tasks : KapacitorStoppedTask(h, task)
    \/ \E task \in Tasks, err \in Errs : KapacitorStoppedTaskWithError(h, task, err)
    \/ \E d \in Str : KapacitorTaskMasterDot(h, d)
    \/ \E collected \in Ints, emitted \in Ints : KapacitorClosingEdge(h, collected, emitted)

KapacitorNodeEvent(h, Ctxs) ==
    \/ \E msg \in Msgs, err \in Errs, ctx \in Ctxs : KapacitorError(h, msg, err, ctx)
    \/ \E level \in AlertLevels, id \in TaskMasters, message \in Msgs, rows \in Rows :
           KapacitorAlertTriggered(h, level, id, message, rows)
    \/ \E new \in Ints, old \in Ints, id \in TaskMasters :
           KapacitorSettingReplicas(h, new, old, id)
    \/ \E q \in Str : KapacitorStartingBatchQuery(h, q)
    \/ \E reason \in Str : KapacitorCannotPerformDerivative(h, reason)
    \/ \E tag \in Str : KapacitorMissingTagForFlattenOp(h, tag)
    \/ \E idx \in Ints : KapacitorIndexOutOfRangeForRow(h, idx)
    \/ KapacitorLoopbackWriteFailed(h)
    \/ \E level \in Levels, prefix \in Str, data \in Msgs :
           KapacitorLogData(h, level, prefix, data)
    \/ \E s \in Str : KapacitorUDFLog(h, s)

NotifierEvent(h) ==
    \/ \E err \in Errs, kv \in KVs : AlertaTemplateError(h, err, kv)
    \/ \E msg \in Msgs, err \in Errs : AlertaError(h, msg, err)
    \/ \E msg \in Msgs, err \in Errs : HipChatError(h, msg, err)
    \/ SlackInsecureSkipVerify(h)
    \/ \E msg \in Msgs, err \in Errs : SlackError(h, msg, err)
    \/ \E msg \in Msgs, err \in Errs : VictorOpsError(h, msg, err)

HTTPDServiceEvent(h) ==
    \/ HTTPDNewHTTPServerErrorLogger(h)
    \/ HTTPDStartingService(h)
    \/ HTTPDStoppedService(h)
    \/ HTTPDShutdownTimeout(h)
    \/ \E enabled \in Bools : HTTPDAuthenticationEnabled(h, enabled)
    \/ \E addr \in Str, proto \in Str : HTTPDListeningOn(h, addr, proto)
    \/ \E body \in Str : HTTPDWriteBodyReceived(h, body)
    \/ \E msg \in Msgs, err \in Errs : HTTPDError(h, msg, err)

HTTPDRequestEvent(h, Args) ==
    \/ \E a \in Args :
           HTTPDHTTP(h, a[1], a[2], a[3], a[4], a[5], a[6], a[7], a[8], a[9], a[10], a[11])
    \/ \E msg \in Msgs, err \in Errs, a \in Args :
           HTTPDRecoveryError(h, msg, err, a[1], a[2], a[3], a[4], a[5], a[6], a[7], a[8],
                              a[9], a[10], a[11])

StoreEvent(h, Ctxs) ==
    \/ \E msg \in Msgs, err \in Errs : ReportingError(h, msg, err)
    \/ \E msg \in Msgs, err \in Errs : StorageError(h, msg, err)
    \/ \E taskID \in Tasks : TaskStoreStartingTask(h, taskID)
    \/ \E taskID \in Tasks : TaskStoreStartedTask(h, taskID)
    \/ \E taskID \in Tasks : TaskStoreFinishedTask(h, taskID)
    \/ \E msg \in Msgs : TaskStoreDebug(h, msg)
    \/ \E msg \in Msgs, err \in Errs, ctx \in Ctxs : TaskStoreError(h, msg, err, ctx)
    \/ \E entity \in Entities, id \in Tasks : TaskStoreAlreadyMigrated(h, entity, id)
    \/ \E entity \in Entities, id \in Tasks : TaskStoreMigrated(h, entity, id)
    \/ \E udf \in Str : UDFServiceLoadedUDFInfo(h, udf)

\* Spec: every accessor of the factory, every derivation and every event method.
Next ==
    \/ Len(handlers) < MaxHandlers /\ Factory
    \/ Len(handlers) < MaxHandlers /\ \E h \in DOMAIN handlers : WithContextStep(h)
    \/ Len(handlers) < MaxHandlers /\ \E h \in DOMAIN handlers : KapacitorScopeStep(h)
    \/ \E h \in DOMAIN handlers : AlertServiceEvent(h, ErrCtxsFew)
    \/ \E h \in DOMAIN handlers : KapacitorTaskEvent(h)
    \/ \E h \in DOMAIN handlers : KapacitorNodeEvent(h, ErrCtxsFew)
    \/ \E h \in DOMAIN handlers : NotifierEvent(h)
    \/ \E h \in DOMAIN handlers : HTTPDServiceEvent(h)
    \/ \E h \in DOMAIN handlers : HTTPDRequestEvent(h, HTTPArgsFew)
    \/ \E h \in DOMAIN handlers : StoreEvent(h, ErrCtxsFew)

Spec == Init /\ [][Next]_vars

\* SpecCtx: the handlers that expose WithContext / WithHandlerContext, derived in chains.
FactoryCtx ==
    \/ NewVictorOpsHandler
    \/ NewSlackHandler
    \/ NewAlertaHandler
    \/ NewAlertHandler
    \/ NewHipChatHandler

NextCtx ==
    \/ Len(handlers) < MaxChain /\ FactoryCtx
    \/ Len(handlers) < MaxChain /\ \E h \in DOMAIN handlers : WithContextStep(h)
    \/ \E h \in DOMAIN handlers : AlertServiceEvent(h, ErrCtxsFew)
    \/ \E h \in DOMAIN handlers : NotifierEvent(h)

SpecCtx == Init /\ [][NextCtx]_vars

\* SpecErr: the three handlers with the variadic Error, called with every context list
\* of up to MaxCtx pairs.
FactoryErr ==
    \/ NewAlertHandler
    \/ NewKapacitorHandler
    \/ NewTaskStoreHandler

NextErr ==
    \/ Len(handlers) < MaxErrHandlers /\ FactoryErr
    \/ \E h \in DOMAIN handlers, msg \in Msgs \cup Str, err \in Errs \cup Str, ctx \in ErrCtxs :
           \/ AlertServiceError(h, msg, err, ctx)
           \/ KapacitorError(h, msg, err, ctx)
           \/ TaskStoreError(h, msg, err, ctx)

SpecErr == Init /\ [][NextErr]_vars

\* SpecKap: the task-execution handler and its task, task-master, node and edge scopes.
NextKap ==
    \/ Len(handlers) < MaxScopes /\ NewKapacitorHandler
    \/ Len(handlers) < MaxScopes /\ \E h \in DOMAIN handlers : KapacitorScopeStep(h)
    \/ \E h \in DOMAIN handlers : KapacitorTaskEvent(h)

SpecKap == Init /\ [][NextKap]_vars

\* SpecHTTP: the HTTP handler with every combination of set and zero request attributes.
NextHTTP ==
    \/ Len(handlers) < MaxHTTPD /\ NewHTTPDHandler
    \/ \E h \in DOMAIN handlers : HTTPDServiceEvent(h)
    \/ \E h \in DOMAIN handlers : HTTPDRequestEvent(h, HTTPArgsAll)

SpecHTTP == Init /\ [][NextHTTP]_vars

\* SpecConc: two callers run WithContext concurrently, statement by statement, on
\* handlers they share; the first handler comes from the factory.
InitConc ==
    /\ logger = NewExample
    /\ handlers \in {<<[type |-> "SlackHandler",
                        l |-> With(NewExample, <<ZapString("service", "slack")>>)]>>,
                     <<[type |-> "VictorOpsHandler",
                        l |-> With(NewExample, <<ZapString("service", "victorops")>>)]>>}
    /\ records = <<>>
    /\ call = [op |-> "NewService", h |-> 0, args |-> <<>>, ret |-> 0]
    /\ origin = <<[op |-> "New" \o handlers[1].type, h |-> 0, args |-> <<>>]>>
    /\ pc = [c \in Callers |-> "idle"]
    /\ frame = [c \in Callers |-> NoFrame]

ConcEvent(h) ==
    \/ SlackInsecureSkipVerify(h)
    \/ \E msg \in Msgs, err \in Errs : SlackError(h, msg, err)
    \/ \E msg \in Msgs, err \in Errs : VictorOpsError(h, msg, err)

NextConc ==
    \/ \E c \in Callers, h \in DOMAIN handlers, ctx \in WithCtxs :
           Len(handlers) + Cardinality({d \in Callers : pc[d] # "idle"}) < MaxShared
           /\ WithContextEnter(c, h, ctx)
    \/ \E c \in Callers : WithContextRange(c)
    \/ \E c \in Callers : WithContextReturn(c)
    \/ \E h \in DOMAIN handlers : ConcEvent(h)

SpecConc == InitConc /\ [][NextConc]_vars

(***************************************************************************)
(* Reference definitions for the properties: what a record is expected to  *)
(* carry, stated per method from the method's contract.                    *)
(***************************************************************************)
Fld(key, type, val) == [Key |-> key, Type |-> type, Val |-> val]
StrFld(key, val) == Fld(key, "String", val)
ErrFld(err) == Fld("error", "Error", err)
PairFields(ctx) == [i \in 1..Len(ctx) |-> StrFld(ctx[i].Key, ctx[i].Value)]

\* the service name of each accessor
ServiceOf(op) ==
    CASE op = "NewVictorOpsHandler" -> "victorops"
      [] op = "NewSlackHandler" -> "slack"
      [] op = "NewTaskStoreHandler" -> "task_store"
      [] op = "NewReportingHandler" -> "reporting"
      [] op = "NewStorageHandler" -> "storage"
      [] op = "NewHTTPDHandler" -> "http"
      [] op = "NewAlertaHandler" -> "alerta"
      [] op = "NewKapacitorHandler" -> "kapacitor"
      [] op = "NewAlertHandler" -> "alert"
      [] op = "NewHipChatHandler" -> "hipchat"
      [] op = "NewUDFServiceHandler" -> "udf"

FactoryOps ==
    {"NewVictorOpsHandler", "NewSlackHandler", "NewTaskStoreHandler", "NewReportingHandler",
     "NewStorageHandler", "NewHTTPDHandler", "NewAlertaHandler", "NewKapacitorHandler",
     "NewAlertHandler", "NewHipChatHandler", "NewUDFServiceHandler"}

WithContextOps ==
    {"AlertServiceHandler.WithHandlerContext", "AlertaHandler.WithContext",
     "HipChatHandler.WithContext", "SlackHandler.WithContext", "VictorOpsHandler.WithContext"}

VariadicErrorOps ==
    {"AlertServiceHandler.Error", "KapacitorHandler.Error", "TaskStoreHandler.Error"}

PlainErrorOps ==
    {"AlertaHandler.Error", "HipChatHandler.Error", "HTTPDHandler.Error",
     "ReportingHandler.Error", "SlackHandler.Error", "StorageHandler.Error",
     "VictorOpsHandler.Error"}

\* the fields a derivation binds
BoundBy(op, a) ==
    CASE op \in WithContextOps -> PairFields(a[1])
      [] op = "KapacitorHandler.WithTaskContext" -> <<StrFld("task", a[1])>>
      [] op = "KapacitorHandler.WithTaskMasterContext" -> <<StrFld("task_master", a[1])>>
      [] op = "KapacitorHandler.WithNodeContext" -> <<StrFld("node", a[1])>>
      [] op = "KapacitorHandler.WithEdgeContext" ->
            <<StrFld("task", a[1]), StrFld("parent", a[2]), StrFld("child", a[3])>>

\* the context a handler is expected to carry, from the calls that led to it
RECURSIVE ExpectedContext(_)
ExpectedContext(h) ==
    IF origin[h].h = 0 THEN <<StrFld("service", ServiceOf(origin[h].op))>>
    ELSE ExpectedContext(origin[h].h) \o BoundBy(origin[h].op, origin[h].args)

\* the eleven request attributes of the access log, in order
RequestFields(a) ==
    <<StrFld("host", a[1]), StrFld("username", a[2]), Fld("start", "Time", a[3]),
      StrFld("method", a[4]), StrFld("uri", a[5]), StrFld("protocol", a[6]),
      Fld("status", "Int", a[7]), StrFld("referer", a[8]), StrFld("user-agent", a[9]),
      StrFld("request-id", a[10]), Fld("duration", "Duration", a[11])>>

\* the fields of the call itself
CallFields(op, a) ==
    CASE op \in VariadicErrorOps -> <<ErrFld(a[2])>> \o PairFields(a[3])
      [] op \in PlainErrorOps -> <<ErrFld(a[2])>>
      [] op \in {"AlertServiceHandler.MigratingHandlerSpecs", "KapacitorHandler.TaskMasterOpened",
                 "KapacitorHandler.TaskMasterClosed", "KapacitorHandler.LoopbackWriteFailed",
                 "HTTPDHandler.StartingService", "HTTPDHandler.StoppedService",
                 "HTTPDHandler.ShutdownTimeout", "SlackHandler.InsecureSkipVerify",
                 "TaskStoreHandler.Debug"} -> <<>>
      [] op \in {"AlertServiceHandler.MigratingOldHandlerSpec",
                 "AlertServiceHandler.FoundNewHandler"} -> <<StrFld("handler", a[1])>>
      [] op \in {"AlertServiceHandler.FoundHandlerRows",
                 "AlertServiceHandler.CreatingNewHandlers"} ->
            <<Fld("handler_row_count", "Int", a[1])>>
      [] op \in {"KapacitorHandler.StartingTask", "KapacitorHandler.StartedTask",
                 "KapacitorHandler.StoppedTask", "TaskStoreHandler.StartingTask",
                 "TaskStoreHandler.StartedTask", "TaskStoreHandler.FinishedTask"} ->
            <<StrFld("task", a[1])>>
      [] op = "KapacitorHandler.StoppedTaskWithError" -> <<StrFld("task", a[1]), ErrFld(a[2])>>
      [] op = "KapacitorHandler.TaskMasterDot" -> <<StrFld("dot", a[1])>>
      [] op = "KapacitorHandler.ClosingEdge" ->
            <<Fld("collected", "Int64", a[1]), Fld("emitted", "Int64", a[2])>>
      [] op = "KapacitorHandler.AlertTriggered" ->
            <<Fld("level", "Stringer", a[1]), StrFld("id", a[2]),
              StrFld("event_message", a[3]),
              StrFld("data", IF a[4] = "nil" THEN "<nil>" ELSE "&{" \o a[4] \o "}")>>
      [] op = "KapacitorHandler.SettingReplicas" ->
            <<Fld("new", "Int", a[1]), Fld("old", "Int", a[2]), StrFld("id", a[3])>>
      [] op = "KapacitorHandler.StartingBatchQuery" -> <<StrFld("query", a[1])>>
      [] op = "KapacitorHandler.CannotPerformDerivative" -> <<StrFld("reason", a[1])>>
      [] op = "KapacitorHandler.MissingTagForFlattenOp" -> <<StrFld("tag", a[1])>>
      [] op = "KapacitorHandler.IndexOutOfRangeForRow" -> <<Fld("index", "Int", a[1])>>
      [] op = "KapacitorHandler.LogData" -> <<StrFld("prefix", a[2]), StrFld("data", a[3])>>
      [] op = "KapacitorHandler.UDFLog" -> <<StrFld("text", a[1])>>
      [] op = "AlertaHandler.TemplateError" -> <<ErrFld(a[1]), StrFld(a[2].Key, a[2].Value)>>
      [] op = "HTTPDHandler.AuthenticationEnabled" -> <<Fld("enabled", "Bool", a[1])>>
      [] op = "HTTPDHandler.ListeningOn" -> <<StrFld("addr", a[1]), StrFld("protocol", a[2])>>
      [] op = "HTTPDHandler.WriteBodyReceived" -> <<StrFld("body", a[1])>>
      [] op = "HTTPDHandler.HTTP" -> RequestFields(a)
      [] op = "HTTPDHandler.RecoveryError" ->
            <<StrFld("err", a[2])>> \o RequestFields(SubSeq(a, 3, 13))
      [] op \in {"TaskStoreHandler.AlreadyMigrated", "TaskStoreHandler.Migrated"} ->
            <<StrFld(a[1], a[2])>>
      [] op = "UDFServiceHandler.LoadedUDFInfo" -> <<StrFld("udf", a[1])>>

\* the last call is an event method (it constructs no handler and is not NewService)
IsEvent ==
    /\ call.ret = 0
    /\ call.op \notin {"NewService", "HTTPDHandler.NewHTTPServerErrorLogger"}

HasKey(fields, key) == \E i \in DOMAIN fields : fields[i].Key = key
KeyCount(fields, key) == Cardinality({i \in DOMAIN fields : fields[i].Key = key})

(***************************************************************************)
(* C10. No field is deduplicated, merged or overwritten: every record of   *)
(* every event call carries the receiver's bound context followed by the   *)
(* fields of the call, all of them, also when keys repeat.                 *)
(***************************************************************************)
C10_NoDeduplication ==
    IsEvent =>
        \A i \in DOMAIN records :
            /\ records[i].Fields = handlers[call.h].l \o CallFields(call.op, call.args)
            /\ Len(records[i].Fields) =
                   Len(handlers[call.h].l) + Len(CallFields(call.op, call.args))

\* StartedTask("t1") on a handler scoped by WithTaskContext("t1"): two task fields
C10_Witness ==
    /\ call.op = "KapacitorHandler.StartedTask"
    /\ call.args = <<"t1">>
    /\ origin[call.h].op = "KapacitorHandler.WithTaskContext"
    /\ origin[call.h].args = <<"t1">>
    /\ Len(records) = 1
    /\ KeyCount(records[1].Fields, "task") = 2

(***************************************************************************)
(* C3. Every event method call writes exactly one record.                  *)
(***************************************************************************)
C3_ExactlyOneRecord == IsEvent => Len(records) = 1

(***************************************************************************)
(* C5. Every accessor of the factory constructs a new handler bound to     *)
(* exactly service=<name>, with the fixed name of its subsystem; every     *)
(* handler, constructed or derived, keeps that field first, so every       *)
(* record carries it first; the root logger stays as NewService made it;   *)
(* an accessor leaves the handlers constructed before as they were.        *)
(***************************************************************************)
RECURSIVE RootOf(_)
RootOf(h) == IF origin[h].h = 0 THEN h ELSE RootOf(origin[h].h)

TypeOfService(name) ==
    CASE name = "victorops" -> "VictorOpsHandler"
      [] name = "slack" -> "SlackHandler"
      [] name = "task_store" -> "TaskStoreHandler"
      [] name = "reporting" -> "ReportingHandler"
      [] name = "storage" -> "StorageHandler"
      [] name = "http" -> "HTTPDHandler"
      [] name = "alerta" -> "AlertaHandler"
      [] name = "kapacitor" -> "KapacitorHandler"
      [] name = "alert" -> "AlertServiceHandler"
      [] name = "hipchat" -> "HipChatHandler"
      [] name = "udf" -> "UDFServiceHandler"

C5_FactoryScopesByService ==
    /\ logger = <<>>
    /\ Len(origin) = Len(handlers)
    /\ \A h \in DOMAIN handlers :
        LET service == StrFld("service", ServiceOf(origin[RootOf(h)].op))
        IN  /\ origin[h].op \in FactoryOps => handlers[h].l = <<service>>
            /\ handlers[h].type = TypeOfService(service.Val)
            /\ Len(handlers[h].l) >= 1
            /\ handlers[h].l[1] = service
    /\ call.op \in FactoryOps =>
        /\ call.ret = Len(handlers)
        /\ origin[call.ret].op = call.op
        /\ records = <<>>
    /\ IsEvent => \A i \in DOMAIN records :
        records[i].Fields[1] = StrFld("service", ServiceOf(origin[RootOf(call.h)].op))

\* two handlers from the same accessor, and an event on the first of them
C5_Witness ==
    /\ Len(handlers) >= 2
    /\ \E a, b \in DOMAIN handlers :
        /\ a < b
        /\ origin[a].op = "NewAlertaHandler"
        /\ origin[b].op = "NewAlertaHandler"
        /\ handlers[a] = handlers[b]
        /\ call.h = a
    /\ IsEvent
    /\ Len(records) = 1
    /\ records[1].Fields[1] = StrFld("service", "alerta")

(***************************************************************************)
(* C6. As written: AlreadyMigrated(entity, id) and Migrated(entity, id)    *)
(* each write one debug record that carries the entity kind and the        *)
(* identifier as two fields.                                               *)
(***************************************************************************)
MigrationOps == {"TaskStoreHandler.AlreadyMigrated", "TaskStoreHandler.Migrated"}

C6_TwoFields ==
    call.op \in MigrationOps =>
        /\ Len(records) = 1
        /\ records[1].Level = "debug"
        /\ Len(records[1].Fields) = Len(handlers[call.h].l) + 2

(***************************************************************************)
(* C6, amended. AlreadyMigrated(entity, id) and Migrated(entity, id) each  *)
(* write one debug record that carries, after the bound context, a single  *)
(* string field whose key is the entity kind and whose value is the        *)
(* identifier.                                                             *)
(***************************************************************************)
C6_OneFieldKeyedByEntity ==
    call.op \in MigrationOps =>
        /\ Len(records) = 1
        /\ records[1].Level = "debug"
        /\ records[1].Message =
               (IF call.op = "TaskStoreHandler.Migrated"
                THEN "entity was migrated to new storage service"
                ELSE "entity has already been migrated skipping")
        /\ records[1].Fields =
               handlers[call.h].l \o <<StrFld(call.args[1], call.args[2])>>

C6_Witness ==
    /\ call.op = "TaskStoreHandler.Migrated"
    /\ call.args = <<"template", "t2">>
    /\ Len(records) = 1
    /\ records[1].Fields[Len(records[1].Fields)] = StrFld("template", "t2")

(***************************************************************************)
(* C9. As written: every record of error severity carries the underlying   *)
(* error as a field (zap.Error under "error", or the error text under      *)
(* "err") beside its message.                                              *)
(***************************************************************************)
CarriesError(r) == HasKey(r.Fields, "error") \/ HasKey(r.Fields, "err")

C9_ErrorAlwaysAttached ==
    \A i \in DOMAIN records : records[i].Level = "error" => CarriesError(records[i])

(***************************************************************************)
(* C9, amended. The methods of error severity that are given an error      *)
(* (every Error, StoppedTaskWithError, TemplateError, and RecoveryError,   *)
(* whose error is a string bound under "err") write one error record that  *)
(* carries it as a field beside the message; those that are given none     *)
(* (CannotPerformDerivative, MissingTagForFlattenOp, IndexOutOfRangeForRow,*)
(* LoopbackWriteFailed, ShutdownTimeout) write one error record with no    *)
(* error field; no other method writes at error severity.                  *)
(***************************************************************************)
ErrorArgOps ==
    VariadicErrorOps \cup PlainErrorOps \cup
    {"KapacitorHandler.StoppedTaskWithError", "AlertaHandler.TemplateError",
     "HTTPDHandler.RecoveryError"}

NoErrorArgOps ==
    {"KapacitorHandler.CannotPerformDerivative", "KapacitorHandler.MissingTagForFlattenOp",
     "KapacitorHandler.IndexOutOfRangeForRow", "KapacitorHandler.LoopbackWriteFailed",
     "HTTPDHandler.ShutdownTimeout"}

\* the error the call was given, as the field expected for it
GivenError(op, a) ==
    CASE op = "KapacitorHandler.StoppedTaskWithError" -> ErrFld(a[2])
      [] op = "AlertaHandler.TemplateError" -> ErrFld(a[1])
      [] op = "HTTPDHandler.RecoveryError" -> StrFld("err", a[2])
      [] OTHER -> ErrFld(a[2])

C9_ErrorAttachedWhenGiven ==
    /\ call.op \in ErrorArgOps =>
        /\ Len(records) = 1
        /\ records[1].Level = "error"
        /\ \E i \in DOMAIN records[1].Fields :
               /\ i > Len(handlers[call.h].l)
               /\ records[1].Fields[i] = GivenError(call.op, call.args)
    /\ call.op \in NoErrorArgOps =>
        /\ Len(records) = 1
        /\ records[1].Level = "error"
        /\ ~ CarriesError(records[1])
    /\ \A i \in DOMAIN records :
        records[i].Level = "error" => call.op \in ErrorArgOps \cup NoErrorArgOps

C9_Witness ==
    /\ call.op = "KapacitorHandler.StoppedTaskWithError"
    /\ Len(records) = 1
    /\ records[1].Message = "failed to stop task with out error"
    /\ records[1].Fields[Len(records[1].Fields)] = ErrFld("EOF")

(***************************************************************************)
(* C2. The variadic Error(msg, err, ctx...) of AlertServiceHandler,        *)
(* KapacitorHandler and TaskStoreHandler writes, for every length of ctx,  *)
(* one error record with message msg whose fields after the bound context  *)
(* are error=err followed by one string field per pair of ctx, in order.   *)
(***************************************************************************)
C2_ErrorArityTransparent ==
    call.op \in VariadicErrorOps =>
        LET msg == call.args[1]
            err == call.args[2]
            ctx == call.args[3]
            own == [i \in 1..(Len(ctx) + 1) |->
                       IF i = 1 THEN ErrFld(err) ELSE StrFld(ctx[i - 1].Key, ctx[i - 1].Value)]
        IN  /\ Len(records) = 1
            /\ records[1].Level = "error"
            /\ records[1].Message = msg
            /\ records[1].Fields = handlers[call.h].l \o own

\* the general path: three pairs, the last differing from the first
C2_Witness ==
    /\ call.op = "TaskStoreHandler.Error"
    /\ Len(call.args[3]) = 3
    /\ call.args[3][1] # call.args[3][3]
    /\ Len(records) = 1
    /\ Len(records[1].Fields) = 5
    /\ records[1].Fields[5] = StrFld(call.args[3][3].Key, call.args[3][3].Value)

(***************************************************************************)
(* C1. For every handler with WithContext (WithHandlerContext): the        *)
(* context of a handler is the context of the handler it was derived from  *)
(* followed by the pairs given, in order; so after                         *)
(* H.WithContext(F1).WithContext(F2) the records of the result carry H's   *)
(* context, then F1, then F2, then the fields of the call, and the records *)
(* of H carry H's context and the fields of the call only.                 *)
(***************************************************************************)
C1_ContextAppendsInOrder ==
    /\ \A b \in DOMAIN handlers :
        origin[b].h # 0 =>
            LET a == origin[b].h
            IN  /\ handlers[b].l = handlers[a].l \o PairFields(origin[b].args[1])
                /\ handlers[b].type = handlers[a].type
                /\ origin[a].h # 0 =>
                       handlers[b].l = handlers[origin[a].h].l
                                       \o PairFields(origin[a].args[1])
                                       \o PairFields(origin[b].args[1])
    /\ \A h \in DOMAIN handlers : handlers[h].l = ExpectedContext(h)
    /\ IsEvent => \A i \in DOMAIN records :
        records[i].Fields = ExpectedContext(call.h) \o CallFields(call.op, call.args)

\* an event on H.WithContext(F1).WithContext(F2), F1 and F2 different and not empty
C1_Witness ==
    /\ IsEvent
    /\ Len(records) = 1
    /\ origin[call.h].h # 0
    /\ origin[origin[call.h].h].h # 0
    /\ origin[call.h].args[1] # <<>>
    /\ origin[origin[call.h].h].args[1] # <<>>
    /\ origin[call.h].args[1] # origin[origin[call.h].h].args[1]
    /\ Len(records[1].Fields) > Len(handlers[call.h].l)

(***************************************************************************)
(* C8. The scopes of KapacitorHandler bind fixed keys:                     *)
(* WithTaskContext(t) binds task=t, WithTaskMasterContext(tm) binds        *)
(* task_master=tm, WithNodeContext(n) binds node=n and                     *)
(* WithEdgeContext(t, p, c) binds task=t, parent=p, child=c, after the     *)
(* receiver's context, which stays as it was. The handler got by           *)
(* WithTaskContext("t1") then WithNodeContext("n7") writes records with    *)
(* task="t1" and node="n7"; the records of the task handler have no node.  *)
(***************************************************************************)
IsTaskScoped(h) ==
    /\ origin[h].op = "KapacitorHandler.WithTaskContext"
    /\ origin[h].args = <<"t1">>
    /\ origin[origin[h].h].op = "NewKapacitorHandler"

IsNodeOfTaskScoped(h) ==
    /\ origin[h].op = "KapacitorHandler.WithNodeContext"
    /\ origin[h].args = <<"n7">>
    /\ IsTaskScoped(origin[h].h)

Contains(fields, f) == \E i \in DOMAIN fields : fields[i] = f

C8_NamedScopes ==
    /\ \A b \in DOMAIN handlers :
        LET a == origin[b].h
            x == origin[b].args
        IN  /\ origin[b].op = "NewKapacitorHandler" =>
                   handlers[b].l = <<StrFld("service", "kapacitor")>>
            /\ origin[b].op = "KapacitorHandler.WithTaskContext" =>
                   handlers[b].l = handlers[a].l \o <<StrFld("task", x[1])>>
            /\ origin[b].op = "KapacitorHandler.WithTaskMasterContext" =>
                   handlers[b].l = handlers[a].l \o <<StrFld("task_master", x[1])>>
            /\ origin[b].op = "KapacitorHandler.WithNodeContext" =>
                   handlers[b].l = handlers[a].l \o <<StrFld("node", x[1])>>
            /\ origin[b].op = "KapacitorHandler.WithEdgeContext" =>
                   handlers[b].l = handlers[a].l \o <<StrFld("task", x[1]),
                                                     StrFld("parent", x[2]),
                                                     StrFld("child", x[3])>>
    /\ IsEvent => \A i \in DOMAIN records :
        /\ IsNodeOfTaskScoped(call.h) =>
               /\ Contains(records[i].Fields, StrFld("task", "t1"))
               /\ Contains(records[i].Fields, StrFld("node", "n7"))
        /\ IsTaskScoped(call.h) => ~ HasKey(records[i].Fields, "node")

\* an event on the node handler of the task handler, both constructed
C8_Witness ==
    /\ IsEvent
    /\ IsNodeOfTaskScoped(call.h)
    /\ Len(records) = 1
    /\ Len(records[1].Fields) >= 3
    /\ records[1].Fields[2] = StrFld("task", "t1")
    /\ records[1].Fields[3] = StrFld("node", "n7")

(***************************************************************************)
(* C7. HTTP writes, for every combination of arguments, one info record    *)
(* whose fields after the bound context are the eleven request attributes  *)
(* in the order host, username, start, method, uri, protocol, status,      *)
(* referer, user-agent, request-id, duration, each with the value given;   *)
(* an empty value is bound as an empty field, never left out.              *)
(***************************************************************************)
RequestKeys ==
    <<"host", "username", "start", "method", "uri", "protocol", "status", "referer",
      "user-agent", "request-id", "duration">>

C7_AccessLogFields ==
    call.op = "HTTPDHandler.HTTP" =>
        /\ Len(records) = 1
        /\ records[1].Level = "info"
        /\ Len(records[1].Fields) = Len(handlers[call.h].l) + 11
        /\ \A i \in 1..11 :
            LET f == records[1].Fields[Len(handlers[call.h].l) + i]
            IN  /\ f.Key = RequestKeys[i]
                /\ f.Val = call.args[i]
        /\ SubSeq(records[1].Fields, 1, Len(handlers[call.h].l)) = handlers[call.h].l

\* an access-log call with an empty referer (and an empty username)
C7_Witness ==
    /\ call.op = "HTTPDHandler.HTTP"
    /\ call.args[8] = ""
    /\ call.args[2] = ""
    /\ call.args[1] # ""
    /\ Len(records) = 1
    /\ records[1].Fields[9] = StrFld("referer", "")

(***************************************************************************)
(* C4. With callers deriving concurrently from shared handlers, in any     *)
(* interleaving with each other and with events: no step changes a handler *)
(* already constructed; every derived handler carries the context of the   *)
(* handler it was derived from followed by the pairs its own caller gave;  *)
(* and a record carries the context of the handler it was written through  *)
(* and the fields of the call, nothing bound on a sibling.                 *)
(***************************************************************************)
HandlersKept ==
    /\ Len(handlers') >= Len(handlers)
    /\ \A h \in DOMAIN handlers : handlers'[h] = handlers[h]

C4_Derived ==
    /\ \A b \in DOMAIN handlers :
        origin[b].h # 0 =>
            /\ handlers[b].l = handlers[origin[b].h].l \o PairFields(origin[b].args[1])
            /\ handlers[b].type = handlers[origin[b].h].type
    /\ \A h \in DOMAIN handlers : handlers[h].l = ExpectedContext(h)
    /\ IsEvent => \A i \in DOMAIN records :
        records[i].Fields = ExpectedContext(call.h) \o CallFields(call.op, call.args)

C4_ConcurrentDerivation == [] C4_Derived /\ [][HandlersKept]_vars

\* A (pairs F) and B (pairs G # F) derived from the same H, A returned while the
\* derivation of B was running, and the last call an event on A
C4_Witness ==
    \E a, b \in DOMAIN handlers :
        /\ a < b
        /\ origin[a].h = 1
        /\ origin[b].h = 1
        /\ origin[a].args[1] # <<>>
        /\ origin[b].args[1] # <<>>
        /\ origin[a].args[1] # origin[b].args[1]
        /\ 1 \in origin[a].during
        /\ IsEvent
        /\ call.h = a
        /\ Len(records) = 1

====
